---- MODULE Spec2Model ----
(***************************************************************************)
(* A model of the dynamic-value runtime of package validate (src/util.go). *)
(*                                                                         *)
(* Representation.                                                         *)
(*   - A Go value is a record [k |-> reflect kind, v |-> payload].  The    *)
(*     untyped nil interface is the value of kind "Invalid".               *)
(*   - reflect reads every integer through one machine word (Value.Int     *)
(*     returns int64, Value.Uint returns uint64).  The word is WordBits    *)
(*     wide here instead of 64, so that its whole range can be enumerated; *)
(*     conversions between the signed and the unsigned word wrap modulo    *)
(*     2^WordBits exactly as the Go conversions wrap modulo 2^64.          *)
(*   - A string is the sequence of its Unicode code points; its byte       *)
(*     length is the sum of the UTF-8 widths of the code points.           *)
(*   - A float is a multiple of one half and is held as its numerator      *)
(*     over 2 (v = 3 is 1.5), which is exact in binary floating point.     *)
(*   - A panic is an outcome of a call: the result record's panic field.   *)
(***************************************************************************)
EXTENDS Integers, Sequences, FiniteSets

VARIABLES pc, call, ret, handles, fatal

vars == <<pc, call, ret, handles, fatal>>

(***************************************************************************)
(* Bounds of the model.                                                    *)
(***************************************************************************)
WordBits == 4

RECURSIVE Pow2(_)
Pow2(n) == IF n = 0 THEN 1 ELSE 2 * Pow2(n - 1)

MinInt64 == -Pow2(WordBits - 1)
MaxInt64 == Pow2(WordBits - 1) - 1
MaxUint64 == Pow2(WordBits) - 1

\* int64(x): the signed word holding the bits of x.
ToInt64Word(x) ==
    LET m == x % Pow2(WordBits)
    IN  IF m > MaxInt64 THEN m - Pow2(WordBits) ELSE m

\* uint64(x): the unsigned word holding the bits of x.
ToUint64Word(x) == x % Pow2(WordBits)

(***************************************************************************)
(* reflect kinds and the values drawn as inputs.                           *)
(***************************************************************************)
SignedKinds == {"Int", "Int8", "Int16", "Int32", "Int64"}
UnsignedKinds == {"Uint", "Uint8", "Uint16", "Uint32", "Uint64", "Uintptr"}
FloatKinds == {"Float32", "Float64"}
ComplexKinds == {"Complex64", "Complex128"}

Val(kind, payload) == [k |-> kind, v |-> payload]

NilValue == Val("Invalid", 0)

\* v.Kind(): k is the dynamic type, which names its own kind except for the
\* defined string type MyString (type MyString string), whose kind is String.
KindOf(v) == IF v.k = "MyString" THEN "String" ELSE v.k

\* var nilObj = NilObject{}
nilObj == Val("NilObject", 0)

NoRet == [none |-> TRUE]

NoFatal == [msg |-> "none", by |-> "none"]

(***************************************************************************)
(* Comparison: kind, basicKindV2, eq.                                      *)
(***************************************************************************)
basicKindV2(kind) ==
    CASE kind = "Bool" -> [kind |-> "boolKind", err |-> "nil"]
      [] kind \in SignedKinds -> [kind |-> "intKind", err |-> "nil"]
      [] kind \in UnsignedKinds -> [kind |-> "uintKind", err |-> "nil"]
      [] kind \in FloatKinds -> [kind |-> "floatKind", err |-> "nil"]
      [] kind \in ComplexKinds -> [kind |-> "complexKind", err |-> "nil"]
      [] kind = "String" -> [kind |-> "stringKind", err |-> "nil"]
      [] OTHER -> [kind |-> "invalidKind", err |-> "errBadComparisonType"]

\* reflect.ValueOf never yields a value of kind Interface, so the values of
\* this model pass through unchanged.
indirectInterface(v) == v

\* A mutation of eqIntUint: the sign test is dropped.
eqIntUintNoSign(i, u) == ToUint64Word(i) = u

\* v1.Int() >= 0 && uint64(v1.Int()) == v2.Uint()
eqIntUint(i, u) == i >= 0 /\ ToUint64Word(i) = u

eq(arg1, arg2) ==
    LET v1 == indirectInterface(arg1)
        b1 == basicKindV2(KindOf(v1))
        v2 == indirectInterface(arg2)
        b2 == basicKindV2(KindOf(v2))
        k1 == b1.kind
        k2 == b2.kind
    IN  IF b1.err # "nil" THEN [truth |-> FALSE, err |-> b1.err]
        ELSE IF b2.err # "nil" THEN [truth |-> FALSE, err |-> b2.err]
        ELSE IF k1 # k2
             THEN [truth |-> CASE k1 = "intKind" /\ k2 = "uintKind" -> eqIntUint(v1.v, v2.v)
                               [] k1 = "uintKind" /\ k2 = "intKind" -> eqIntUint(v2.v, v1.v)
                               [] OTHER -> FALSE,
                   err |-> "nil"]
             ELSE [truth |-> v1.v = v2.v, err |-> "nil"]

(***************************************************************************)
(* SpecEq: eq applied to every pair of the values below.                   *)
(***************************************************************************)
EqSignedKinds == {"Int", "Int8", "Int64"}
EqUnsignedKinds == {"Uint", "Uint8", "Uint64"}

EqValues ==
    {Val(kd, n) : kd \in EqSignedKinds, n \in MinInt64..MaxInt64}
    \cup {Val(kd, n) : kd \in EqUnsignedKinds, n \in 0..MaxUint64}
    \cup {Val("Bool", b) : b \in BOOLEAN}
    \cup {Val("Float64", n) : n \in {-1, 0, 2}}
    \cup {Val("String", s) : s \in {<<>>, <<97>>}}
    \cup {Val("Slice", <<>>), NilValue}

InitEq ==
    /\ pc = "ready"
    /\ call \in {[fn |-> "eq", a |-> x, b |-> y] : x \in EqValues, y \in EqValues}
    /\ ret = NoRet
    /\ handles = {}
    /\ fatal = NoFatal

EqCall ==
    /\ pc = "ready"
    /\ call.fn = "eq"
    /\ ret' = eq(call.a, call.b)
    /\ pc' = "done"
    /\ UNCHANGED <<call, handles, fatal>>

SpecEq == InitEq /\ [][EqCall]_vars

\* C1: for a signed integer and an unsigned integer, in either argument
\* order, eq returns (signed >= 0 and signed == unsigned) with no error; a
\* negative signed value is never equal to an unsigned value.
C1_EqSignAware ==
    (pc = "done" /\ call.fn = "eq") =>
        /\ (call.a.k \in SignedKinds /\ call.b.k \in UnsignedKinds) =>
               ret = [truth |-> (call.a.v >= 0 /\ call.a.v = call.b.v), err |-> "nil"]
        /\ (call.a.k \in UnsignedKinds /\ call.b.k \in SignedKinds) =>
               ret = [truth |-> (call.b.v >= 0 /\ call.b.v = call.a.v), err |-> "nil"]

\* A negative signed value against the unsigned value with the same bits
\* (-1 against the largest unsigned word) has been compared, unequal.
C1_Witness ==
    /\ pc = "done"
    /\ call.fn = "eq"
    /\ call.a.k \in UnsignedKinds
    /\ call.b.k \in SignedKinds
    /\ call.b.v < 0
    /\ call.a.v = call.b.v + Pow2(WordBits)
    /\ ret = [truth |-> FALSE, err |-> "nil"]

(***************************************************************************)
(* Strings: UTF-8 width, trimming, strconv.ParseInt, strconv.FormatInt.    *)
(***************************************************************************)
\* The number of bytes of the UTF-8 encoding of code point r.
Utf8Len(r) ==
    IF r < 128 THEN 1
    ELSE IF r < 2048 THEN 2
    ELSE IF r < 65536 THEN 3
    ELSE 4

\* len(str): the byte length of str.
RECURSIVE ByteLen(_)
ByteLen(s) == IF s = <<>> THEN 0 ELSE Utf8Len(Head(s)) + ByteLen(Tail(s))

\* len([]rune(str)): the number of code points of str.
RuneLen(s) == Len(s)

IsAsciiDigit(r) == r >= 48 /\ r <= 57

IsSpace(r) == r \in {9, 10, 11, 12, 13, 32}

RECURSIVE TrimLeft(_)
TrimLeft(s) == IF s # <<>> /\ IsSpace(Head(s)) THEN TrimLeft(Tail(s)) ELSE s

RECURSIVE TrimRight(_)
TrimRight(s) ==
    IF s # <<>> /\ IsSpace(s[Len(s)]) THEN TrimRight(SubSeq(s, 1, Len(s) - 1)) ELSE s

\* strings.TrimSpace
TrimSpace(s) == TrimRight(TrimLeft(s))

RECURSIVE DigitsValue(_)
DigitsValue(s) ==
    IF s = <<>> THEN 0 ELSE 10 * DigitsValue(SubSeq(s, 1, Len(s) - 1)) + (s[Len(s)] - 48)

\* strconv.ParseInt(s, 10, 0): an optional sign and one or more decimal
\* digits, within the range of the signed word.
ParseInt(s) ==
    LET signed == s # <<>> /\ Head(s) \in {43, 45}
        digits == IF signed THEN Tail(s) ELSE s
        n == IF signed /\ Head(s) = 45 THEN -DigitsValue(digits) ELSE DigitsValue(digits)
    IN  IF digits = <<>> \/ \E i \in 1..Len(digits) : ~IsAsciiDigit(digits[i])
        THEN [val |-> 0, err |-> "strconv.ErrSyntax"]
        ELSE IF n < MinInt64 \/ n > MaxInt64
        THEN [val |-> IF n < 0 THEN MinInt64 ELSE MaxInt64, err |-> "strconv.ErrRange"]
        ELSE [val |-> n, err |-> "nil"]

RECURSIVE NatDigits(_)
NatDigits(n) == IF n < 10 THEN <<48 + n>> ELSE NatDigits(n \div 10) \o <<48 + (n % 10)>>

\* strconv.FormatInt(i, 10)
FormatInt(i) == IF i < 0 THEN <<45>> \o NatDigits(-i) ELSE NatDigits(i)

\* float64 to int64: the fraction is discarded (truncation toward zero).
TruncFloat(f) == IF f >= 0 THEN f \div 2 ELSE -((-f) \div 2)

\* int64 to float64.
IntToFloat(i) == 2 * i

(***************************************************************************)
(* Conversion to int64 and float64.                                        *)
(***************************************************************************)
ErrConvertFail == "validate.ErrConvertFail"

valueToInt64(v, strict) ==
    CASE v.k = "String" ->
             IF strict THEN [val |-> 0, err |-> ErrConvertFail]
             ELSE ParseInt(TrimSpace(v.v))
      [] v.k \in SignedKinds -> [val |-> v.v, err |-> "nil"]
      [] v.k \in UnsignedKinds \ {"Uintptr"} -> [val |-> ToInt64Word(v.v), err |-> "nil"]
      [] v.k \in FloatKinds ->
             IF strict THEN [val |-> 0, err |-> ErrConvertFail]
             ELSE [val |-> TruncFloat(v.v), err |-> "nil"]
      [] OTHER -> [val |-> 0, err |-> ErrConvertFail]

\* mathutil.ToInt64 and mathutil.Int64 (package goutil): the conversion of
\* valueToInt64 without strictness; its failure for an unsupported type is
\* goutil's own error value.
mathutilToInt64(v) ==
    LET r == valueToInt64(v, FALSE)
    IN  IF r.err = ErrConvertFail THEN [val |-> 0, err |-> "mathutil.ErrConvertFail"] ELSE r

\* mathutil.ToFloat (package goutil) for the operands of this model: nil,
\* bool, the integer kinds and the float kinds.
mathutilToFloat(v) ==
    CASE v.k \in SignedKinds \cup UnsignedKinds -> [val |-> IntToFloat(v.v), err |-> "nil"]
      [] v.k \in FloatKinds -> [val |-> v.v, err |-> "nil"]
      [] OTHER -> [val |-> 0, err |-> "mathutil.ErrConvertFail"]

(***************************************************************************)
(* Ordered comparison.                                                     *)
(***************************************************************************)
compareInt64(srcI64, dstI64, op) ==
    CASE op = "lt" -> srcI64 < dstI64
      [] op = "lte" -> srcI64 <= dstI64
      [] op = "gt" -> srcI64 > dstI64
      [] op = "gte" -> srcI64 >= dstI64
      [] OTHER -> FALSE

\* Floats are numerators over the same denominator, so their order is the
\* order of the numerators.
compareFloat64(srcI64, dstI64, op) ==
    CASE op = "lt" -> srcI64 < dstI64
      [] op = "lte" -> srcI64 <= dstI64
      [] op = "gt" -> srcI64 > dstI64
      [] op = "gte" -> srcI64 >= dstI64
      [] OTHER -> FALSE

valueCompare(srcVal, dstVal, op) ==
    IF srcVal.k = "String"
    THEN IF dstVal.k # "String" THEN FALSE
         ELSE compareInt64(ByteLen(srcVal.v), ByteLen(dstVal.v), op)
    ELSE LET s == mathutilToInt64(srcVal)
             d == mathutilToInt64(dstVal)
         IN  IF s.err # "nil" THEN FALSE
             ELSE IF d.err # "nil" THEN FALSE
             ELSE compareInt64(s.val, d.val, op)

compareIntFloat(srcVal, dstVal, op) ==
    IF srcVal = NilValue \/ dstVal = NilValue THEN FALSE
    ELSE IF srcVal.k \in FloatKinds
    THEN LET d == mathutilToFloat(dstVal)
         IN  IF d.err # "nil" THEN FALSE ELSE compareFloat64(srcVal.v, d.val, op)
    ELSE LET s == mathutilToInt64(srcVal)
             d == mathutilToInt64(dstVal)
         IN  IF s.err # "nil" THEN FALSE
             ELSE IF d.err # "nil" THEN FALSE
             ELSE compareInt64(s.val, d.val, op)

Ops == {"lt", "lte", "gt", "gte", "eq"}

(***************************************************************************)
(* SpecCompareIntFloat: compareIntFloat on numbers, bool and nil.          *)
(***************************************************************************)
MaxCmpInt == 2

CmpNumbers ==
    {Val(kd, n) : kd \in {"Int", "Int64"}, n \in (-MaxCmpInt)..MaxCmpInt}
    \cup {Val("Uint", n) : n \in 0..MaxCmpInt}
    \cup {Val(kd, n) : kd \in FloatKinds, n \in (-2 * MaxCmpInt - 1)..(2 * MaxCmpInt + 1)}

CmpValues == CmpNumbers \cup {Val("Bool", TRUE), NilValue}

InitCompareIntFloat ==
    /\ pc = "ready"
    /\ call \in {[fn |-> "compareIntFloat", a |-> x, b |-> y, op |-> o] :
                    x \in CmpValues, y \in CmpValues, o \in Ops}
    /\ ret = NoRet
    /\ handles = {}
    /\ fatal = NoFatal

CompareIntFloatCall ==
    /\ pc = "ready"
    /\ call.fn = "compareIntFloat"
    /\ ret' = [ok |-> compareIntFloat(call.a, call.b, call.op)]
    /\ pc' = "done"
    /\ UNCHANGED <<call, handles, fatal>>

SpecCompareIntFloat == InitCompareIntFloat /\ [][CompareIntFloatCall]_vars

\* The value of a number as a float (numerator over 2) and as a signed word.
AsFloat(v) == IF v.k \in FloatKinds THEN v.v ELSE IntToFloat(v.v)
AsInt64(v) == IF v.k \in UnsignedKinds THEN ToInt64Word(v.v) ELSE v.v

OrderHolds(x, y, op) ==
    \/ op = "lt" /\ x < y
    \/ op = "lte" /\ x <= y
    \/ op = "gt" /\ x > y
    \/ op = "gte" /\ x >= y

\* C2: with op in {lt, lte, gt, gte}, if either operand of compareIntFloat
\* is a float the result is the float ordering of the two operands, both
\* taken as floats; only when neither is a float are they compared as
\* 64-bit signed integers.
C2_FloatIfEitherIsFloat ==
    (/\ pc = "done"
     /\ call.fn = "compareIntFloat"
     /\ call.op \in {"lt", "lte", "gt", "gte"}
     /\ call.a \in CmpNumbers
     /\ call.b \in CmpNumbers) =>
        IF call.a.k \in FloatKinds \/ call.b.k \in FloatKinds
        THEN ret.ok = OrderHolds(AsFloat(call.a), AsFloat(call.b), call.op)
        ELSE ret.ok = OrderHolds(AsInt64(call.a), AsInt64(call.b), call.op)

(***************************************************************************)
(* SpecValueCompare: valueCompare on strings and integers.                 *)
(***************************************************************************)
MaxStrLen == 2

\* a, e with acute accent (2 bytes), the euro sign (3 bytes), an emoji (4 bytes)
CmpRunes == {97, 233, 8364, 128512}

RECURSIVE SeqsUpTo(_, _)
SeqsUpTo(S, n) ==
    IF n = 0 THEN {<<>>}
    ELSE LET shorter == SeqsUpTo(S, n - 1)
         IN  shorter \cup {Append(s, x) : s \in shorter, x \in S}

CmpStrings == {Val("String", s) : s \in SeqsUpTo(CmpRunes, MaxStrLen)}

ValueCompareValues ==
    CmpStrings \cup {Val("Int", n) : n \in 0..MaxCmpInt} \cup {Val("Bool", TRUE)}

InitValueCompare ==
    /\ pc = "ready"
    /\ call \in {[fn |-> "valueCompare", a |-> x, b |-> y, op |-> o] :
                    x \in ValueCompareValues, y \in ValueCompareValues, o \in Ops}
    /\ ret = NoRet
    /\ handles = {}
    /\ fatal = NoFatal

ValueCompareCall ==
    /\ pc = "ready"
    /\ call.fn = "valueCompare"
    /\ ret' = [ok |-> valueCompare(call.a, call.b, call.op)]
    /\ pc' = "done"
    /\ UNCHANGED <<call, handles, fatal>>

SpecValueCompare == InitValueCompare /\ [][ValueCompareCall]_vars

\* C3: when both operands of valueCompare are strings, the result is the
\* ordering under op of their code-point counts, not of their byte counts.
C3_StringsByCodePoints ==
    (/\ pc = "done"
     /\ call.fn = "valueCompare"
     /\ call.op \in {"lt", "lte", "gt", "gte"}
     /\ call.a.k = "String"
     /\ call.b.k = "String") =>
        ret.ok = OrderHolds(Len(call.a.v), Len(call.b.v), call.op)

(***************************************************************************)
(* Length: ValueLen, CalcLength.                                           *)
(***************************************************************************)
\* len(fmt.Sprint(f)) for a float that is a multiple of one half: a sign,
\* the digits of the integer part, and ".5" when there is a fraction.
SprintFloatLen(f) ==
    LET m == IF f < 0 THEN -f ELSE f
    IN  (IF f < 0 THEN 1 ELSE 0) + Len(NatDigits(m \div 2)) + (IF m % 2 = 1 THEN 2 ELSE 0)

\* The values of this model hold no pointers, so reflect.Indirect changes
\* nothing.  The payload of a string is its code points, of a Map, Array,
\* Chan or Slice its elements.
ValueLen(v) ==
    LET k == KindOf(v)
    IN  CASE k = "String" -> RuneLen(v.v)
          [] k \in {"Map", "Array", "Chan", "Slice"} -> Len(v.v)
          [] k \in UnsignedKinds -> Len(FormatInt(ToInt64Word(v.v)))
          [] k \in SignedKinds -> Len(FormatInt(v.v))
          [] k \in FloatKinds -> SprintFloatLen(v.v)
          [] OTHER -> -1

CalcLength(val) ==
    IF val = NilValue THEN -1
    ELSE IF val.k = "String" THEN RuneLen(val.v)
    ELSE ValueLen(val)

(***************************************************************************)
(* SpecLen: CalcLength on every integer of the word, and on strings,       *)
(* floats, slices, bool and nil.                                           *)
(***************************************************************************)
MaxElems == 2

LenValues ==
    {Val(kd, n) : kd \in EqSignedKinds, n \in MinInt64..MaxInt64}
    \cup {Val(kd, n) : kd \in EqUnsignedKinds, n \in 0..MaxUint64}
    \cup CmpStrings
    \cup {Val("MyString", s) : s \in {<<233>>, <<97, 8364>>}}
    \cup {Val(kd, n) : kd \in FloatKinds, n \in -3..3}
    \cup {Val("Slice", s) : s \in SeqsUpTo({1}, MaxElems)}
    \cup {Val("Bool", TRUE), NilValue}

InitLen ==
    /\ pc = "ready"
    /\ call \in {[fn |-> "CalcLength", a |-> x] : x \in LenValues}
    /\ ret = NoRet
    /\ handles = {}
    /\ fatal = NoFatal

CalcLengthCall ==
    /\ pc = "ready"
    /\ call.fn = "CalcLength"
    /\ ret' = [len |-> CalcLength(call.a)]
    /\ pc' = "done"
    /\ UNCHANGED <<call, handles, fatal>>

SpecLen == InitLen /\ [][CalcLengthCall]_vars

\* The number of decimal digits of the natural number n.
RECURSIVE DecimalDigits(_)
DecimalDigits(n) == IF n < 10 THEN 1 ELSE 1 + DecimalDigits(n \div 10)

Abs(n) == IF n < 0 THEN -n ELSE n

\* C4: for every integer value, signed (negative ones too) or unsigned
\* (those above the signed maximum too), CalcLength returns the number of
\* decimal digits of the value.
C4_LengthIsDigitCount ==
    (/\ pc = "done"
     /\ call.fn = "CalcLength"
     /\ call.a.k \in SignedKinds \cup UnsignedKinds) =>
        ret.len = DecimalDigits(Abs(call.a.v))

(***************************************************************************)
(* Function values.  A function value is Val("Func", ft) with              *)
(*   ft.in       the declared parameter types (NumIn = Len(ft.in)),        *)
(*   ft.variadic whether the last parameter is variadic (...T, T the last  *)
(*               entry of ft.in),                                          *)
(*   ft.out      the declared result types,                                *)
(*   ft.isNil    whether it is the nil value of its function type.         *)
(***************************************************************************)
FuncType(ins, variadic, outs, isNil) ==
    [in |-> ins, variadic |-> variadic, out |-> outs, isNil |-> isNil]

\* Type.Kind() of a declared type; MyBool is a defined type (type MyBool bool).
TypeKind(typ) ==
    CASE typ \in {"bool", "MyBool"} -> "Bool"
      [] typ = "int" -> "Int"
      [] typ = "string" -> "String"
      [] typ = "NilObject" -> "Struct"
      [] OTHER -> "Interface"

\* var errorType = reflect.TypeOf((*error)(nil)).Elem()
errorType == "error"

\* The dynamic type of an argument value.
TypeOf(v) ==
    CASE v.k = "String" -> "string"
      [] v.k = "Int" -> "int"
      [] v.k = "Bool" -> "bool"
      [] OTHER -> v.k

\* Type.AssignableTo for the types of this model: a type is assignable to
\* itself and, as every type implements interface{}, to interface{}.
AssignableTo(typ, target) == typ = target \/ target = "interface{}"

(***************************************************************************)
(* CallByValue.                                                            *)
(***************************************************************************)
\* var nilRVal = reflect.ValueOf(nilObj)
nilRVal == nilObj

\* A mutation of argValue: the argument is passed on as reflected.
argValueUnchecked(v) == v

\* in[k] = reflect.ValueOf(v), replaced by nilRVal when its kind is Invalid.
argValue(v) == IF KindOf(v) = "Invalid" THEN nilRVal ELSE v

\* The declared type of parameter position i of ft in a call.
ParamType(ft, i) == IF i >= Len(ft.in) THEN ft.in[Len(ft.in)] ELSE ft.in[i]

\* reflect.Value.Call(in) on a function value: "none" when the function is
\* entered, else the panic reflect raises.
reflectCall(fv, in) ==
    LET ft == fv.v
        n == Len(in)
    IN  IF ft.isNil THEN "reflect: call of nil function"
        ELSE IF ~ft.variadic /\ n < Len(ft.in) THEN "reflect: Call with too few input arguments"
        ELSE IF ~ft.variadic /\ n > Len(ft.in) THEN "reflect: Call with too many input arguments"
        ELSE IF ft.variadic /\ n < Len(ft.in) - 1 THEN "reflect: Call with too few input arguments"
        ELSE IF \E i \in 1..n : KindOf(in[i]) = "Invalid"
        THEN "reflect: Call using zero Value argument"
        ELSE IF \E i \in 1..n : ~AssignableTo(TypeOf(in[i]), ParamType(ft, i))
        THEN "reflect: Call using an argument of another type"
        ELSE "none"

CallByValue(fv, args) ==
    IF KindOf(fv) # "Func"
    THEN [panic |-> "validate: parameter must be an func type", in |-> <<>>, called |-> FALSE]
    ELSE LET in == [k \in 1..Len(args) |-> argValue(args[k])]
             p == reflectCall(fv, in)
         IN  [panic |-> p, in |-> in, called |-> p = "none"]

(***************************************************************************)
(* Registration: goodName, goodFunc, checkValidatorFunc, checkFilterFunc.  *)
(***************************************************************************)
\* unicode.IsLetter on the code points of this model: the ASCII letters and
\* e with acute accent.
IsLetter(r) == (r >= 65 /\ r <= 90) \/ (r >= 97 /\ r <= 122) \/ r = 233

\* unicode.IsDigit on the code points of this model: the ASCII digits and
\* the Arabic-Indic digit three.
IsDigit(r) == (r >= 48 /\ r <= 57) \/ r = 1635

\* A mutation of goodNameRune: the first character is tested like the rest.
goodNameRuneAnywhere(i, r) == r = 95 \/ IsLetter(r) \/ IsDigit(r)

\* One turn of goodName's loop: whether rune r at index i (from 0) passes.
goodNameRune(i, r) ==
    CASE r = 95 -> TRUE
      [] i = 0 /\ ~IsLetter(r) -> FALSE
      [] ~IsLetter(r) /\ ~IsDigit(r) -> FALSE
      [] OTHER -> TRUE

\* The byte index of the i-th code point of name (range yields byte indexes).
ByteIndex(name, i) == ByteLen(SubSeq(name, 1, i - 1))

goodName(name) ==
    IF name = <<>> THEN FALSE
    ELSE \A i \in 1..Len(name) : goodNameRune(ByteIndex(name, i), name[i])

goodFunc(typ) ==
    CASE Len(typ.out) = 1 -> TRUE
      [] Len(typ.out) = 2 /\ typ.out[2] = errorType -> TRUE
      [] OTHER -> FALSE

Registered(fv) == [panic |-> "none", fv |-> fv]
Fatal(msg) == [panic |-> msg, fv |-> NilValue]

\* A mutation of checkValidatorFunc: a function without parameters passes.
checkValidatorFuncAnyArity(name, fn) ==
    IF ~goodName(name)
    THEN Fatal("validate: validate name is not a valid identifier")
    ELSE IF fn = NilValue \/ KindOf(fn) # "Func"
    THEN Fatal("validate: validator 2th parameter is invalid, it must be an func")
    ELSE IF Len(fn.v.out) # 1 \/ TypeKind(fn.v.out[1]) # "Bool"
    THEN Fatal("validate: validator func must be return a bool value")
    ELSE Registered(fn)

checkValidatorFunc(name, fn) ==
    IF ~goodName(name)
    THEN Fatal("validate: validate name is not a valid identifier")
    ELSE IF fn = NilValue \/ KindOf(fn) # "Func"
    THEN Fatal("validate: validator 2th parameter is invalid, it must be an func")
    ELSE IF Len(fn.v.in) = 0
    THEN Fatal("validate: validator func at least one parameter position")
    ELSE IF Len(fn.v.out) # 1 \/ TypeKind(fn.v.out[1]) # "Bool"
    THEN Fatal("validate: validator func must be return a bool value")
    ELSE Registered(fn)

\* A mutation of checkFilterFunc: the kind of fn is not tested.
checkFilterFuncAnyKind(name, fn) ==
    IF ~goodName(name)
    THEN Fatal("validate: filter name is not a valid identifier")
    ELSE IF fn = NilValue
    THEN Fatal("validate: filter 2th parameter is invalid, it must be an func")
    ELSE IF KindOf(fn) # "Func"
    THEN Registered(fn)
    ELSE IF Len(fn.v.in) = 0
    THEN Fatal("validate: filter func at least one parameter position")
    ELSE IF ~goodFunc(fn.v)
    THEN Fatal("validate: can't install method/function")
    ELSE Registered(fn)

checkFilterFunc(name, fn) ==
    IF ~goodName(name)
    THEN Fatal("validate: filter name is not a valid identifier")
    ELSE IF fn = NilValue \/ KindOf(fn) # "Func"
    THEN Fatal("validate: filter 2th parameter is invalid, it must be an func")
    ELSE IF Len(fn.v.in) = 0
    THEN Fatal("validate: filter func at least one parameter position")
    ELSE IF ~goodFunc(fn.v)
    THEN Fatal("validate: can't install method/function")
    ELSE Registered(fn)

(***************************************************************************)
(* SpecGoodName: goodName on every name of at most MaxNameLen characters.  *)
(***************************************************************************)
MaxNameLen == 3

\* 1, -, _, a, e with acute accent, the Arabic-Indic digit three
NameRunes == {49, 45, 95, 97, 233, 1635}

InitGoodName ==
    /\ pc = "ready"
    /\ call \in {[fn |-> "goodName", name |-> s] : s \in SeqsUpTo(NameRunes, MaxNameLen)}
    /\ ret = NoRet
    /\ handles = {}
    /\ fatal = NoFatal

GoodNameCall ==
    /\ pc = "ready"
    /\ call.fn = "goodName"
    /\ ret' = [ok |-> goodName(call.name)]
    /\ pc' = "done"
    /\ UNCHANGED <<call, handles, fatal>>

SpecGoodName == InitGoodName /\ [][GoodNameCall]_vars

\* A name is non-empty, starts with a letter or an underscore, and goes on
\* with letters, digits and underscores.
ValidIdentifier(name) ==
    /\ name # <<>>
    /\ IsLetter(name[1]) \/ name[1] = 95
    /\ \A i \in 2..Len(name) : IsLetter(name[i]) \/ IsDigit(name[i]) \/ name[i] = 95

\* C10: goodName(name) is true if and only if name is non-empty, its first
\* character is a letter or underscore and every later character is a
\* letter, a digit or an underscore.
C10_GoodNameIffIdentifier ==
    (pc = "done" /\ call.fn = "goodName") => (ret.ok <=> ValidIdentifier(call.name))

\* A name starting with a digit has been rejected (the digit would have
\* passed anywhere else in the name).
C10_Witness ==
    /\ pc = "done"
    /\ call.fn = "goodName"
    /\ call.name = <<49, 97, 95>>
    /\ ret.ok = FALSE

(***************************************************************************)
(* SpecRegister: checkValidatorFunc and checkFilterFunc on every pair of   *)
(* a name and a value below.                                               *)
(***************************************************************************)
MaxParams == 2
MaxResults == 2

ParamTypes == {"interface{}", "string"}
ResultTypes == {"bool", "MyBool", "int", "error"}

FuncTypes ==
    {ft \in {FuncType(ins, va, outs, nl) :
                ins \in SeqsUpTo(ParamTypes, MaxParams),
                va \in BOOLEAN,
                outs \in SeqsUpTo(ResultTypes, MaxResults),
                nl \in BOOLEAN} : ft.variadic => ft.in # <<>>}

RegisterNames == {<<>>, <<97>>, <<95, 49>>, <<49, 97>>, <<97, 45>>}

RegisterValues == {Val("Func", ft) : ft \in FuncTypes} \cup {NilValue, Val("Int", 1)}

InitRegister ==
    /\ pc = "ready"
    /\ call \in {[fn |-> f, name |-> s, a |-> x] :
                    f \in {"checkValidatorFunc", "checkFilterFunc"},
                    s \in RegisterNames, x \in RegisterValues}
    /\ ret = NoRet
    /\ handles = {}
    /\ fatal = NoFatal

CheckValidatorFuncCall ==
    /\ pc = "ready"
    /\ call.fn = "checkValidatorFunc"
    /\ ret' = checkValidatorFunc(call.name, call.a)
    /\ pc' = "done"
    /\ UNCHANGED <<call, handles, fatal>>

CheckFilterFuncCall ==
    /\ pc = "ready"
    /\ call.fn = "checkFilterFunc"
    /\ ret' = checkFilterFunc(call.name, call.a)
    /\ pc' = "done"
    /\ UNCHANGED <<call, handles, fatal>>

SpecRegister == InitRegister /\ [][CheckValidatorFuncCall \/ CheckFilterFuncCall]_vars

MaxArgs == 2

CallParamTypes == {"interface{}", "string", "NilObject"}

CallFuncTypes ==
    {ft \in {FuncType(ins, va, <<"bool">>, nl) :
                ins \in SeqsUpTo(CallParamTypes, MaxParams),
                va \in BOOLEAN,
                nl \in BOOLEAN} : ft.variadic => ft.in # <<>>}

CallValues == {Val("Func", ft) : ft \in CallFuncTypes} \cup {NilValue, Val("Int", 1)}

ArgValues == {NilValue, Val("String", <<97>>), Val("Int", 1)}

InitCallByValue ==
    /\ pc = "ready"
    /\ call \in {[fn |-> "CallByValue", fv |-> f, args |-> as] :
                    f \in CallValues, as \in SeqsUpTo(ArgValues, MaxArgs)}
    /\ ret = NoRet
    /\ handles = {}
    /\ fatal = NoFatal

CallByValueCall ==
    /\ pc = "ready"
    /\ call.fn = "CallByValue"
    /\ ret' = CallByValue(call.fv, call.args)
    /\ pc' = "done"
    /\ UNCHANGED <<call, handles, fatal>>

SpecCallByValue == InitCallByValue /\ [][CallByValueCall]_vars

\* The argument count fits the arity of ft.
ArityFits(ft, n) == IF ft.variadic THEN n >= Len(ft.in) - 1 ELSE n = Len(ft.in)

\* The argument list with every nil argument replaced by the sentinel.
WithSentinel(args) ==
    [k \in 1..Len(args) |-> IF args[k] = NilValue THEN nilObj ELSE args[k]]

\* C5 as claimed: CallByValue on a function value with a nil argument
\* never aborts the call, whatever the declared parameter types: the nil
\* arguments are replaced by the sentinel and the function is invoked.  (The
\* function is taken non-nil and the argument count to fit its arity.)
C5_NilArgNeverAborts ==
    (/\ pc = "done"
     /\ call.fn = "CallByValue"
     /\ call.fv.k = "Func"
     /\ ~call.fv.v.isNil
     /\ ArityFits(call.fv.v, Len(call.args))
     /\ \E k \in 1..Len(call.args) : call.args[k] = NilValue) =>
        /\ ret.panic = "none"
        /\ ret.called
        /\ ret.in = WithSentinel(call.args)

\* C5 as amended: CallByValue on a function value replaces every nil
\* argument by the NilObject sentinel, keeping the number and order of the
\* arguments, so that Call never receives an invalid value and the layer
\* raises no abort of its own; the function is then invoked if and only if
\* it is not nil, the argument count fits its arity and every argument, the
\* sentinel included, is assignable to the declared parameter type at its
\* position; otherwise reflect's Call panics.
C5_NilArgsBecomeSentinel ==
    (pc = "done" /\ call.fn = "CallByValue" /\ call.fv.k = "Func") =>
        LET ft == call.fv.v
            n == Len(call.args)
        IN  /\ ret.in = WithSentinel(call.args)
            /\ ret.panic \notin {"validate: parameter must be an func type",
                                 "reflect: Call using zero Value argument"}
            /\ ret.called <=>
                   /\ ~ft.isNil
                   /\ ArityFits(ft, n)
                   /\ \A k \in 1..n :
                          AssignableTo(TypeOf(WithSentinel(call.args)[k]), ParamType(ft, k))
            /\ ret.called <=> ret.panic = "none"

\* A nil argument has been passed, as the sentinel, to a func(string,
\* interface{}) bool, which was invoked.
C5_Witness ==
    /\ pc = "done"
    /\ call.fn = "CallByValue"
    /\ call.fv = Val("Func", FuncType(<<"string", "interface{}">>, FALSE, <<"bool">>, FALSE))
    /\ call.args = <<Val("String", <<97>>), NilValue>>
    /\ ret = [panic |-> "none", in |-> <<Val("String", <<97>>), nilObj>>, called |-> TRUE]

(***************************************************************************)
(* Spec: the layer in use.  Functions are registered through               *)
(* checkValidatorFunc and checkFilterFunc, which hand out handles; the     *)
(* handles handed out so far are invoked through CallByValue.  A panic     *)
(* ends the run: fatal records its message and the function that raised it.*)
(***************************************************************************)
MaxHandles == 2

RuntimeNames == {<<97>>, <<49>>}

RuntimeFuncTypes ==
    {FuncType(ins, FALSE, outs, FALSE) :
        ins \in {<<>>, <<"interface{}">>, <<"string">>},
        outs \in {<<>>, <<"bool">>, <<"int">>, <<"int", "error">>}}

RuntimeValues == {Val("Func", ft) : ft \in RuntimeFuncTypes} \cup {NilValue, Val("Int", 1)}

RuntimeArgs == SeqsUpTo({NilValue, Val("String", <<97>>)}, MaxArgs)

Init ==
    /\ pc = "run"
    /\ call = [fn |-> "none"]
    /\ ret = NoRet
    /\ handles = {}
    /\ fatal = NoFatal

\* What a call that returned r leaves behind: the handle is kept, or the
\* panic ends the run.
Outcome(by, r, kept) ==
    IF r.panic = "none"
    THEN /\ Cardinality(handles \cup kept) <= MaxHandles
         /\ handles' = handles \cup kept
         /\ pc' = "run"
         /\ fatal' = fatal
    ELSE /\ handles' = handles
         /\ pc' = "aborted"
         /\ fatal' = [msg |-> r.panic, by |-> by]

RegisterValidator ==
    /\ pc = "run"
    /\ \E name \in RuntimeNames, fn \in RuntimeValues :
          LET r == checkValidatorFunc(name, fn)
          IN  /\ call' = [fn |-> "checkValidatorFunc", name |-> name, a |-> fn]
              /\ ret' = r
              /\ Outcome("checkValidatorFunc", r, {r.fv})

RegisterFilter ==
    /\ pc = "run"
    /\ \E name \in RuntimeNames, fn \in RuntimeValues :
          LET r == checkFilterFunc(name, fn)
          IN  /\ call' = [fn |-> "checkFilterFunc", name |-> name, a |-> fn]
              /\ ret' = r
              /\ Outcome("checkFilterFunc", r, {r.fv})

Invoke ==
    /\ pc = "run"
    /\ \E fv \in handles, args \in RuntimeArgs :
          LET r == CallByValue(fv, args)
          IN  /\ call' = [fn |-> "CallByValue", fv |-> fv, args |-> args]
              /\ ret' = r
              /\ Outcome("CallByValue", r, {})

Next == RegisterValidator \/ RegisterFilter \/ Invoke

Spec == Init /\ [][Next]_vars

\* The aborts the layer raises itself (panicf).
RegistrationAborts ==
    {"validate: validate name is not a valid identifier",
     "validate: validator 2th parameter is invalid, it must be an func",
     "validate: validator func at least one parameter position",
     "validate: validator func must be return a bool value",
     "validate: filter name is not a valid identifier",
     "validate: filter 2th parameter is invalid, it must be an func",
     "validate: filter func at least one parameter position",
     "validate: can't install method/function"}

LayerAborts == RegistrationAborts \cup {"validate: parameter must be an func type"}

\* C8: over any sequence of registrations and invocations the layer's own
\* abort is raised only during registration: every handle handed out is a
\* function, and CallByValue on a handle never raises the abort 'parameter
\* must be an func type', whatever the arguments.
C8_AbortOnlyAtRegistration ==
    /\ \A fv \in handles : KindOf(fv) = "Func"
    /\ fatal.msg \in LayerAborts =>
           /\ fatal.by \in {"checkValidatorFunc", "checkFilterFunc"}
           /\ fatal.msg \in RegistrationAborts
    /\ call.fn = "CallByValue" => ret.panic \notin LayerAborts

\* A handle handed out by checkFilterFunc was invoked with a nil argument
\* and the run ended in a panic of reflect's Call, not of the layer.
C8_Witness ==
    /\ pc = "aborted"
    /\ call.fn = "CallByValue"
    /\ call.fv \in handles
    /\ call.fv.v.out = <<"int", "error">>
    /\ call.args = <<NilValue>>
    /\ fatal = [msg |-> "reflect: Call using an argument of another type", by |-> "CallByValue"]

(***************************************************************************)
(* Coercion: convTypeByBaseKind.                                           *)
(***************************************************************************)
\* mathutil.ToInt (package goutil): as mathutil.ToInt64, int being the
\* machine word.
mathutilToInt(v) == mathutilToInt64(v)

\* The words true, false, on, off, yes, no and the digits 1, 0.
TrueWords == {<<49>>, <<111, 110>>, <<121, 101, 115>>, <<116, 114, 117, 101>>}
FalseWords == {<<48>>, <<111, 102, 102>>, <<110, 111>>, <<102, 97, 108, 115, 101>>}

ToLowerRune(r) == IF r >= 65 /\ r <= 90 THEN r + 32 ELSE r

\* strutil.Bool (package goutil): the canonical spellings of a boolean; its
\* failure is goutil's own error value.
strutilBool(s) ==
    LET lower == [i \in 1..Len(s) |-> ToLowerRune(s[i])]
    IN  IF lower \in TrueWords THEN [val |-> TRUE, err |-> "nil"]
        ELSE IF lower \in FalseWords THEN [val |-> FALSE, err |-> "nil"]
        ELSE [val |-> FALSE, err |-> "strutil: cannot convert to bool"]

\* strconv.FormatFloat of a multiple of one half.
FormatFloat(f) ==
    LET m == IF f < 0 THEN -f ELSE f
    IN  (IF f < 0 THEN <<45>> ELSE <<>>) \o NatDigits(m \div 2)
            \o (IF m % 2 = 1 THEN <<46, 53>> ELSE <<>>)

\* strutil.ToString (package goutil) for the values of this model.
strutilToString(v) ==
    CASE v.k = "String" -> [val |-> v.v, err |-> "nil"]
      [] v.k \in SignedKinds -> [val |-> FormatInt(v.v), err |-> "nil"]
      [] v.k \in UnsignedKinds -> [val |-> NatDigits(v.v), err |-> "nil"]
      [] v.k \in FloatKinds -> [val |-> FormatFloat(v.v), err |-> "nil"]
      [] v.k = "Bool" ->
             [val |-> IF v.v THEN <<116, 114, 117, 101>> ELSE <<102, 97, 108, 115, 101>>,
              err |-> "nil"]
      [] OTHER -> [val |-> <<>>, err |-> "strutil.ErrConvType"]

Converted(kind, r) ==
    [val |-> IF r.err = "nil" THEN Val(kind, r.val) ELSE Val(kind, 0), err |-> r.err,
     panic |-> "none"]

ConvPanic(msg) == [val |-> NilValue, err |-> "nil", panic |-> msg]

convTypeByBaseKind(srcVal, srcKind, dstType) ==
    CASE srcKind = "stringKind" /\ dstType = "Int" -> Converted("Int", mathutilToInt(srcVal))
      [] srcKind = "stringKind" /\ dstType = "Int64" -> Converted("Int64", mathutilToInt64(srcVal))
      [] srcKind = "stringKind" /\ dstType = "Bool" ->
             IF srcVal.k # "String"
             THEN ConvPanic("interface conversion: interface {} is not string")
             ELSE LET r == strutilBool(srcVal.v)
                  IN  [val |-> Val("Bool", r.val), err |-> r.err, panic |-> "none"]
      [] srcKind = "stringKind" /\ dstType = "String" ->
             IF srcVal.k # "String"
             THEN ConvPanic("interface conversion: interface {} is not string")
             ELSE [val |-> srcVal, err |-> "nil", panic |-> "none"]
      [] srcKind \in {"intKind", "uintKind"} /\ dstType = "Int64" ->
             [val |-> Val("Int64", mathutilToInt64(srcVal).val), err |-> "nil", panic |-> "none"]
      [] srcKind \notin {"stringKind"} /\ dstType = "String" ->
             LET r == strutilToString(srcVal)
             IN  [val |-> Val("String", r.val), err |-> r.err, panic |-> "none"]
      [] OTHER -> [val |-> NilValue, err |-> ErrConvertFail, panic |-> "none"]

(***************************************************************************)
(* SpecConv: convTypeByBaseKind on every value below, under the base kind  *)
(* of the value, to every target kind below.                               *)
(***************************************************************************)
\* the texts "1", " 7", "-3", "99", "a", "1a", "", "on", "No"
ConvTexts ==
    {<<49>>, <<32, 55>>, <<45, 51>>, <<57, 57>>, <<97>>, <<49, 97>>, <<>>,
     <<111, 110>>, <<78, 111>>}

ConvValues ==
    {Val("String", s) : s \in ConvTexts}
    \cup {Val("MyString", <<49>>)}
    \cup {Val("Int", n) : n \in MinInt64..MaxInt64}
    \cup {Val("Uint64", n) : n \in 0..MaxUint64}
    \cup {Val("Bool", TRUE), Val("Float64", 3)}

ConvTargets == {"Int", "Int64", "Bool", "String", "Uint", "Float64"}

InitConv ==
    /\ pc = "ready"
    /\ call \in {[fn |-> "convTypeByBaseKind", a |-> x,
                  srcKind |-> basicKindV2(KindOf(x)).kind, dstType |-> d] :
                    x \in ConvValues, d \in ConvTargets}
    /\ ret = NoRet
    /\ handles = {}
    /\ fatal = NoFatal

ConvCall ==
    /\ pc = "ready"
    /\ call.fn = "convTypeByBaseKind"
    /\ ret' = convTypeByBaseKind(call.a, call.srcKind, call.dstType)
    /\ pc' = "done"
    /\ UNCHANGED <<call, handles, fatal>>

SpecConv == InitConv /\ [][ConvCall]_vars

\* Whether (srcKind, dstType) is a pair of the conversion table.
InTable(srcKind, dstType) ==
    \/ srcKind = "stringKind" /\ dstType \in {"Int", "Int64", "Bool", "String"}
    \/ srcKind \in {"intKind", "uintKind"} /\ dstType \in {"Int64", "String"}
    \/ dstType = "String"

\* C9: convTypeByBaseKind never aborts and every failure it reports is
\* exactly ErrConvertFail: from a string to Int or Int64, text that is a
\* decimal integer after trimming yields that integer and any other text
\* yields ErrConvertFail; every pair outside the table yields ErrConvertFail.
C9_FailuresAreConvertFail ==
    (pc = "done" /\ call.fn = "convTypeByBaseKind") =>
        /\ ret.panic = "none"
        /\ ret.err \in {"nil", ErrConvertFail}
        /\ (call.a.k = "String" /\ call.dstType \in {"Int", "Int64"}) =>
               LET r == ParseInt(TrimSpace(call.a.v))
               IN  IF r.err = "nil"
                   THEN ret.err = "nil" /\ ret.val = Val(call.dstType, r.val)
                   ELSE ret.err = ErrConvertFail
        /\ ~InTable(call.srcKind, call.dstType) => ret.err = ErrConvertFail

(***************************************************************************)
(* Membership: includeElement.                                             *)
(***************************************************************************)
\* IsEqual: two values are equal when eq reports them equal without error.
IsEqual(val, wantVal) ==
    LET r == eq(val, wantVal)
    IN  r.err = "nil" /\ r.truth

\* reflect.Value.String(): the string itself, or a text naming the type
\* ("<int Value>", "<invalid Value>") for the other values of this model.
ValueString(v) ==
    CASE KindOf(v) = "String" -> v.v
      [] KindOf(v) = "Invalid" ->
             <<60, 105, 110, 118, 97, 108, 105, 100, 32, 86, 97, 108, 117, 101, 62>>
      [] OTHER -> <<60, 105, 110, 116, 32, 86, 97, 108, 117, 101, 62>>

\* strings.Contains
Contains(s, substr) ==
    \E i \in 1..(Len(s) + 1) :
        /\ i + Len(substr) - 1 <= Len(s)
        /\ SubSeq(s, i, i + Len(substr) - 1) = substr

\* The kinds reflect.Value.Len and Index accept among those of this model.
\* The payload of a Map is the sequence of its keys.
includeElement(list, element) ==
    LET listKind == KindOf(list)
    IN  IF listKind = "Invalid"
        THEN [ok |-> FALSE, found |-> FALSE,
              panic |-> "reflect: call of reflect.Value.Type on zero Value"]
        ELSE IF listKind = "String"
        THEN [ok |-> TRUE, found |-> Contains(list.v, ValueString(element)), panic |-> "none"]
        ELSE IF listKind = "Map"
        THEN [ok |-> TRUE, found |-> \E i \in 1..Len(list.v) : IsEqual(list.v[i], element),
              panic |-> "none"]
        ELSE IF listKind \notin {"Slice", "Array"}
        THEN [ok |-> FALSE, found |-> FALSE, panic |-> "none"]
        ELSE [ok |-> TRUE, found |-> \E i \in 1..Len(list.v) : IsEqual(list.v[i], element),
              panic |-> "none"]

(***************************************************************************)
(* SpecInclude: includeElement on every container and element below.       *)
(***************************************************************************)
Elements == {Val("Int", 1), Val("Int", -1), Val("Uint", 1), Val("String", <<97>>),
             Val("String", <<>>), NilValue}

ElementSeqs == SeqsUpTo(Elements \ {NilValue}, MaxElems)

Containers ==
    {Val(kd, s) : kd \in {"Slice", "Array", "Map"}, s \in ElementSeqs}
    \cup {Val("String", s) : s \in {<<>>, <<97>>, <<98, 97>>, <<60, 105, 110, 116, 32, 86, 97, 108, 117, 101, 62>>}}
    \cup {Val("Int", 42), Val("Struct", 0), Val("Bool", TRUE), NilValue}

InitInclude ==
    /\ pc = "ready"
    /\ call \in {[fn |-> "includeElement", a |-> c, b |-> e] : c \in Containers, e \in Elements}
    /\ ret = NoRet
    /\ handles = {}
    /\ fatal = NoFatal

IncludeElementCall ==
    /\ pc = "ready"
    /\ call.fn = "includeElement"
    /\ ret' = includeElement(call.a, call.b)
    /\ pc' = "done"
    /\ UNCHANGED <<call, handles, fatal>>

SpecInclude == InitInclude /\ [][IncludeElementCall]_vars

\* C6: includeElement never panics, whatever the container: for every
\* container that is not a string, map, slice or array (a number, a struct,
\* and also a nil container) it returns (supported = false, found = false).
C6_NeverPanics ==
    (pc = "done" /\ call.fn = "includeElement") =>
        /\ ret.panic = "none"
        /\ KindOf(call.a) \notin {"String", "Map", "Slice", "Array"} =>
               (ret.ok = FALSE /\ ret.found = FALSE)

====
